---- MODULE Spec2Model ----
(***************************************************************************)
(* tailmon: the agent's reporting loop (agent/src/main.rs) and the         *)
(* server's latest-value store with its two handlers (server/src/main.rs). *)
(* The two programs are separate processes; each has its own               *)
(* specification over the shared variable list: ReporterSpec moves only    *)
(* the agent's variables, CollectorSpec only the server's.                 *)
(***************************************************************************)
EXTENDS Integers, Sequences, FiniteSets, TLC

(* ---- bounds of the model ---- *)
\* Cap on consecutive_failures: the code lets it grow without limit under
\* non-success responses; the failure actions are guarded by this cap.
MaxFailures == 8
\* Number of HTTP requests the server receives in one behaviour.
MaxRequests == 3
\* Number of shards of the DashMap (4 * cores rounded up in the library).
NumShards == 2

(* ---- program constants ---- *)
MAX_CONSECUTIVE_FAILURES == 5
COOLDOWN_SECS == 30
BASE_WAIT_SECS == 5
BACKOFF_STEP_SECS == 2
MAX_WAIT_SECS == 15

VARIABLES
    \* agent/src/main.rs, main
    agent_pc,               \* position of the loop: the code between two awaits
    consecutive_failures,   \* let mut consecutive_failures
    wait_time,              \* let wait_time, 0 before the first one is computed
    slept,                  \* seconds of the sleeps done in the current iteration
    outstanding,            \* requests sent whose send().await has not returned
    attempts,               \* sends made with the current system_info value
    outcome,                \* history: outcome of the current iteration's send
    prev,                   \* history: outcome of the iteration before
    before,                 \* history: consecutive_failures when the send returned
    nth,                    \* history: ordinal of this iteration's failure in its run
    cooled,                 \* history: the 30 s sleep was done in this iteration
    \* server/src/main.rs
    metrics,                \* AppState.metrics: per shard, key -> SystemInfo
    readers,                \* per shard, the requests holding a read lock
    requests,               \* number of requests received so far
    kind,                   \* per request: "none", "post", "get"
    pc,                     \* per request: position of its handler
    system_info,            \* per accepted POST: the decoded SystemInfo
    shard_i,                \* per GET: Iter.shard_i
    result,                 \* per GET: the Vec<SystemInfo> collected so far
    status,                 \* per request: HTTP status of its response (0: none yet)
    writes,                 \* history: the inserts done, in order
    wstart,                 \* history: Len(writes) when the request arrived
    preceded                \* history: the requests answered when this one arrived

agent_vars == <<agent_pc, consecutive_failures, wait_time, slept,
                outstanding, attempts, outcome, prev, before, nth, cooled>>
server_vars == <<metrics, readers, requests, kind, pc, system_info,
                 shard_i, result, status, writes, wstart, preceded>>
vars == <<agent_vars, server_vars>>

Min(a, b) == IF a < b THEN a ELSE b

(***************************************************************************)
(* The Reporter: agent/src/main.rs, main, lines 108-157.                   *)
(***************************************************************************)

\* lines 149-153: the wait computed from the counter
WaitTimeNoCap(n) == IF n > 0 THEN BASE_WAIT_SECS + n * BACKOFF_STEP_SECS
                    ELSE BASE_WAIT_SECS
WaitTime(n) == IF n > 0
               THEN Min(BASE_WAIT_SECS + n * BACKOFF_STEP_SECS, MAX_WAIT_SECS)
               ELSE BASE_WAIT_SECS

\* line 129: the counter after a success status
AfterSuccessKeep(n) == n
AfterSuccess(n) == 0

\* lines 132, 136: the counter after a failure
AfterFailure(n) == n + 1

\* line 140: the test that guards the cool-down
TooMany(n) == n >= MAX_CONSECUTIVE_FAILURES

\* history: ordinal of a failure within its run of consecutive failures, a
\* run ending at a success or at a cool-down
NextNth == IF cooled THEN 1 ELSE nth + 1

AgentInit ==
    /\ agent_pc = "sample"
    /\ consecutive_failures = 0
    /\ wait_time = 0
    /\ slept = 0
    /\ outstanding = 0
    /\ attempts = 0
    /\ outcome = "none"
    /\ prev = "none"
    /\ before = 0
    /\ nth = 0
    /\ cooled = FALSE

\* lines 114-124: get_system_info().await returns a new system_info, which
\* is serialized and sent; the loop then awaits the response
get_system_info ==
    /\ agent_pc = "sample"
    /\ agent_pc' = "send"
    /\ slept' = 0
    /\ attempts' = 1
    /\ outstanding' = outstanding + 1
    /\ UNCHANGED <<consecutive_failures, wait_time, outcome, prev, before, nth,
                   cooled>>
    /\ UNCHANGED server_vars

\* lines 126-129: Ok(response), status is_success
send_success ==
    /\ agent_pc = "send"
    /\ consecutive_failures' = AfterSuccess(consecutive_failures)
    /\ outcome' = "success"
    /\ prev' = outcome
    /\ before' = consecutive_failures
    /\ nth' = 0
    /\ cooled' = FALSE
    /\ agent_pc' = "wait"
    /\ outstanding' = outstanding - 1
    /\ UNCHANGED <<wait_time, slept, attempts>>
    /\ UNCHANGED server_vars

\* lines 130-133: Ok(response), status not is_success
send_error_status ==
    /\ agent_pc = "send"
    /\ consecutive_failures < MaxFailures
    /\ consecutive_failures' = AfterFailure(consecutive_failures)
    /\ outcome' = "status"
    /\ prev' = outcome
    /\ before' = consecutive_failures
    /\ nth' = NextNth
    /\ cooled' = FALSE
    /\ agent_pc' = "wait"
    /\ outstanding' = outstanding - 1
    /\ UNCHANGED <<wait_time, slept, attempts>>
    /\ UNCHANGED server_vars

\* lines 135-140: Err(e); the branch to the cool-down is taken here only
send_transport_error_retry ==
    /\ agent_pc = "send"
    /\ consecutive_failures < MaxFailures
    /\ consecutive_failures' = AfterFailure(consecutive_failures)
    /\ outcome' = "transport"
    /\ prev' = outcome
    /\ before' = consecutive_failures
    /\ nth' = NextNth
    /\ cooled' = FALSE
    /\ agent_pc' = "send"
    /\ attempts' = attempts + 1
    /\ UNCHANGED <<wait_time, slept, outstanding>>
    /\ UNCHANGED server_vars
send_transport_error ==
    /\ agent_pc = "send"
    /\ consecutive_failures < MaxFailures
    /\ consecutive_failures' = AfterFailure(consecutive_failures)
    /\ outcome' = "transport"
    /\ prev' = outcome
    /\ before' = consecutive_failures
    /\ nth' = NextNth
    /\ cooled' = FALSE
    /\ agent_pc' = IF TooMany(AfterFailure(consecutive_failures))
                   THEN "cooldown" ELSE "wait"
    /\ outstanding' = outstanding - 1
    /\ UNCHANGED <<wait_time, slept, attempts>>
    /\ UNCHANGED server_vars

\* lines 141-143: sleep(30 s), then the reset
cooldown_exit ==
    /\ agent_pc = "cooldown"
    /\ slept' = slept + COOLDOWN_SECS
    /\ consecutive_failures' = 0
    /\ cooled' = TRUE
    /\ agent_pc' = "exit"
    /\ UNCHANGED <<wait_time, outstanding, attempts, outcome, prev, before, nth>>
    /\ UNCHANGED server_vars
cooldown_continue ==
    /\ agent_pc = "cooldown"
    /\ slept' = slept + COOLDOWN_SECS
    /\ consecutive_failures' = 0
    /\ cooled' = TRUE
    /\ agent_pc' = "sample"
    /\ UNCHANGED <<wait_time, outstanding, attempts, outcome, prev, before, nth>>
    /\ UNCHANGED server_vars
cooldown ==
    /\ agent_pc = "cooldown"
    /\ slept' = slept + COOLDOWN_SECS
    /\ consecutive_failures' = 0
    /\ cooled' = TRUE
    /\ agent_pc' = "wait"
    /\ UNCHANGED <<wait_time, outstanding, attempts, outcome, prev, before, nth>>
    /\ UNCHANGED server_vars

\* lines 149-155: compute wait_time
compute_wait ==
    /\ agent_pc = "wait"
    /\ wait_time' = WaitTime(consecutive_failures)
    /\ agent_pc' = "sleep"
    /\ UNCHANGED <<consecutive_failures, slept, outstanding, attempts, outcome,
                   prev, before, nth, cooled>>
    /\ UNCHANGED server_vars

\* line 156: sleep(wait_time).await, then the next iteration
sleep_wait ==
    /\ agent_pc = "sleep"
    /\ slept' = slept + wait_time
    /\ agent_pc' = "sample"
    /\ UNCHANGED <<consecutive_failures, wait_time, outstanding, attempts,
                   outcome, prev, before, nth, cooled>>
    /\ UNCHANGED server_vars

AgentNext ==
    \/ get_system_info
    \/ send_success
    \/ send_error_status
    \/ send_transport_error
    \/ cooldown
    \/ compute_wait
    \/ sleep_wait

(***************************************************************************)
(* The Collector: server/src/main.rs and common/src/lib.rs.                *)
(***************************************************************************)

Shards == 0 .. (NumShards - 1)
Requests == 1 .. MaxRequests

\* common/src/lib.rs, struct SystemInfo: the six required fields
FieldNames == {"device_id", "os_info", "cpu_usage",
               "ram_used_mb", "ram_total_mb", "last_seen"}

SystemInfo(d, os, cpu, used, total, seen) ==
    [device_id |-> d, os_info |-> os, cpu_usage |-> cpu,
     ram_used_mb |-> used, ram_total_mb |-> total, last_seen |-> seen]

\* The reports agents send in this model.  No field is validated by the
\* server, so the set holds a cpu_usage above 100, a ram_used_mb above
\* ram_total_mb and an empty device_id; the two reports of "alpha" differ in
\* every field but the key.
Reports ==
    { SystemInfo("alpha", "Ubuntu 22.04", 10, 100, 200, "t1"),
      SystemInfo("alpha", "Ubuntu 24.04", 250, 300, 250, "t2"),
      SystemInfo("", "Unknown Unknown", 0, 1, 2, "t3") }

Devices == { r.device_id : r \in Reports }

\* Request bodies of POST /api/metrics: the JSON objects of the reports, a
\* JSON object without its last_seen field, and a body that is not JSON.
\* json: the body parses as JSON; obj: the fields of its object.
JsonOf(r) == [json |-> TRUE, obj |-> r]
MissingField ==
    [json |-> TRUE,
     obj |-> [device_id |-> "alpha", os_info |-> "Ubuntu 22.04",
              cpu_usage |-> 10, ram_used_mb |-> 100, ram_total_mb |-> 200]]
NotJson == [json |-> FALSE, obj |-> [raw |-> "cpu=10"]]
Bodies == { JsonOf(r) : r \in Reports } \cup {MissingField, NotJson}

\* lines 26-29: the Json<SystemInfo> extractor.  A body that is not JSON is
\* answered 400, a JSON object without a required field 422; otherwise the
\* six fields are read into a SystemInfo.
from_json_lenient(body) ==
    [ok |-> TRUE, status |-> 200,
     value |-> [f \in FieldNames |->
                  IF f \in DOMAIN body.obj THEN body.obj[f] ELSE "missing"]]
from_json_validating(body) ==
    IF ~body.json THEN [ok |-> FALSE, status |-> 400]
    ELSE IF ~(FieldNames \subseteq DOMAIN body.obj)
         THEN [ok |-> FALSE, status |-> 422]
         ELSE IF body.obj.device_id = "" \/ body.obj.cpu_usage > 100
              THEN [ok |-> FALSE, status |-> 422]
              ELSE [ok |-> TRUE, status |-> 200,
                    value |-> [f \in FieldNames |-> body.obj[f]]]
from_json(body) ==
    IF ~body.json THEN [ok |-> FALSE, status |-> 400]
    ELSE IF ~(FieldNames \subseteq DOMAIN body.obj)
         THEN [ok |-> FALSE, status |-> 422]
         ELSE [ok |-> TRUE, status |-> 200,
               value |-> [f \in FieldNames |-> body.obj[f]]]

\* DashMap::determine_map: the shard of a key, from its hash.  With two
\* shards the two devices share one, with three they do not.
Hash(key) == IF key = "alpha" THEN 1 ELSE 3
determine_shard(key) == Hash(key) % NumShards

\* HashMap::insert within one shard: the entry of the key is replaced or added
InsertKeepOld(m, key, value) ==
    [k \in DOMAIN m \cup {key} |-> IF k \in DOMAIN m THEN m[k] ELSE value]
InsertTorn(m, key, value) ==
    [k \in DOMAIN m \cup {key} |->
        IF k # key THEN m[k]
        ELSE IF k \in DOMAIN m
             THEN [value EXCEPT !.last_seen = m[k].last_seen]
             ELSE value]
InsertAlone(m, key, value) == [k \in {key} |-> value]
Insert(m, key, value) ==
    [k \in DOMAIN m \cup {key} |-> IF k = key THEN value ELSE m[k]]

\* The orders in which the iterator of one shard's table may yield its keys
Orders(S) ==
    { q \in [1 .. Cardinality(S) -> S] :
        \A a, b \in 1 .. Cardinality(S) : q[a] = q[b] => a = b }

\* Iter::next over one shard: the values of the shard, cloned in some order
ShardValuesSkipFirst(m, q) == [a \in 1 .. (Len(q) - 1) |-> m[q[a + 1]]]
ShardValues(m, q) == [a \in 1 .. Len(q) |-> m[q[a]]]

\* the number of shards the iterator of get_all_metrics visits
ShardCount == NumShards

EmptyMap == [k \in {} |-> k]

ServerInit ==
    /\ metrics = [s \in Shards |-> EmptyMap]
    /\ readers = [s \in Shards |-> {}]
    /\ requests = 0
    /\ kind = [i \in Requests |-> "none"]
    /\ pc = [i \in Requests |-> "idle"]
    /\ system_info = EmptyMap
    /\ shard_i = [i \in Requests |-> 0]
    /\ result = [i \in Requests |-> <<>>]
    /\ status = [i \in Requests |-> 0]
    /\ writes = <<>>
    /\ wstart = [i \in Requests |-> 0]
    /\ preceded = [i \in Requests |-> {}]

\* history kept at the arrival of request i
Arrive(i) ==
    /\ requests < MaxRequests
    /\ i = requests + 1
    /\ requests' = i
    /\ wstart' = [wstart EXCEPT ![i] = Len(writes)]
    /\ preceded' = [preceded EXCEPT ![i] = { j \in Requests : pc[j] = "done" }]

\* lines 26-38: POST /api/metrics arrives; the extractor decodes the body and
\* either rejects the request or enters the handler
receive_metrics(body) ==
    /\ \E i \in Requests :
           /\ Arrive(i)
           /\ kind' = [kind EXCEPT ![i] = "post"]
           /\ LET d == from_json(body) IN
               IF d.ok
               THEN /\ system_info' = (i :> d.value) @@ system_info
                    /\ pc' = [pc EXCEPT ![i] = "insert"]
                    /\ UNCHANGED status
               ELSE /\ status' = [status EXCEPT ![i] = d.status]
                    /\ pc' = [pc EXCEPT ![i] = "done"]
                    /\ UNCHANGED system_info
           /\ UNCHANGED <<metrics, readers, shard_i, result, writes>>
    /\ UNCHANGED agent_vars

\* line 41, DashMap::insert: with the write lock of the key's shard, which
\* is granted when no iterator holds a read guard of the shard, write the
\* entry; the lock is dropped when insert returns
insert(i) ==
    /\ pc[i] = "insert"
    /\ LET s == determine_shard(system_info[i].device_id) IN
        /\ readers[s] = {}
        /\ metrics' = [metrics EXCEPT ![s] =
                          Insert(@, system_info[i].device_id, system_info[i])]
    /\ writes' = Append(writes, [req |-> i, info |-> system_info[i]])
    /\ pc' = [pc EXCEPT ![i] = "respond"]
    /\ UNCHANGED <<readers, requests, kind, system_info, shard_i, result,
                   status, wstart, preceded>>
    /\ UNCHANGED agent_vars

\* line 43: (StatusCode::OK, "Veri Alındı")
receive_metrics_return(i) ==
    /\ pc[i] = "respond"
    /\ status' = [status EXCEPT ![i] = 200]
    /\ pc' = [pc EXCEPT ![i] = "done"]
    /\ UNCHANGED <<metrics, readers, requests, kind, system_info,
                   shard_i, result, writes, wstart, preceded>>
    /\ UNCHANGED agent_vars

\* line 47-48: GET /api/all_metrics arrives; state.metrics.iter()
get_all_metrics ==
    /\ \E i \in Requests :
           /\ Arrive(i)
           /\ kind' = [kind EXCEPT ![i] = "get"]
           /\ pc' = [pc EXCEPT ![i] = "iter"]
           /\ shard_i' = [shard_i EXCEPT ![i] = 0]
           /\ result' = [result EXCEPT ![i] = <<>>]
           /\ UNCHANGED <<metrics, readers, system_info, status, writes>>
    /\ UNCHANGED agent_vars

\* line 48, Iter::next at the end of a shard: take the read lock of the next
\* shard (no insert is inside it: an insert is one step), drop the guard of
\* the one before, clone the shard's values
iter_next(i) ==
    /\ pc[i] = "iter"
    /\ shard_i[i] < ShardCount
    /\ LET s == shard_i[i] IN
        /\ readers' = [t \in Shards |->
                          IF t = s THEN readers[t] \cup {i}
                          ELSE readers[t] \ {i}]
        /\ \E q \in Orders(DOMAIN metrics[s]) :
              result' = [result EXCEPT ![i] = @ \o ShardValues(metrics[s], q)]
    /\ shard_i' = [shard_i EXCEPT ![i] = @ + 1]
    /\ UNCHANGED <<metrics, requests, kind, pc, system_info, status,
                   writes, wstart, preceded>>
    /\ UNCHANGED agent_vars

\* lines 48-49: the iterator is exhausted and dropped with its last guard;
\* collect() ends and JsonResponse(metrics) is returned
get_all_metrics_return_leak(i) ==
    /\ pc[i] = "iter"
    /\ shard_i[i] >= ShardCount
    /\ status' = [status EXCEPT ![i] = 200]
    /\ pc' = [pc EXCEPT ![i] = "done"]
    /\ UNCHANGED <<metrics, readers, requests, kind, system_info, shard_i,
                   result, writes, wstart, preceded>>
    /\ UNCHANGED agent_vars
get_all_metrics_return(i) ==
    /\ pc[i] = "iter"
    /\ shard_i[i] >= ShardCount
    /\ readers' = [t \in Shards |-> readers[t] \ {i}]
    /\ status' = [status EXCEPT ![i] = 200]
    /\ pc' = [pc EXCEPT ![i] = "done"]
    /\ UNCHANGED <<metrics, requests, kind, system_info, shard_i,
                   result, writes, wstart, preceded>>
    /\ UNCHANGED agent_vars

ServerNext ==
    \/ \E body \in Bodies : receive_metrics(body)
    \/ \E i \in Requests : insert(i)
    \/ \E i \in Requests : receive_metrics_return(i)
    \/ get_all_metrics
    \/ \E i \in Requests : iter_next(i)
    \/ \E i \in Requests : get_all_metrics_return(i)

(***************************************************************************)
(* Specifications.                                                         *)
(***************************************************************************)

Init == AgentInit /\ ServerInit

ReporterSpec == Init /\ [][AgentNext]_vars
\* The runtime resumes the loop's task whenever the await it is suspended at
\* completes, and the sampler, the request (10 s timeout) and the sleeps
\* complete: some step of the loop is taken whenever one is possible.
ReporterFairSpec == ReporterSpec /\ WF_vars(AgentNext)
CollectorSpec == Init /\ [][ServerNext]_vars
\* The runtime polls every handler that can proceed: a step of a handler
\* that stays possible is taken.  Nothing makes a client send a request.
HandlerFairness ==
    \A i \in Requests :
        /\ WF_vars(insert(i))
        /\ WF_vars(receive_metrics_return(i))
        /\ WF_vars(iter_next(i))
        /\ WF_vars(get_all_metrics_return(i))
CollectorFairSpec == CollectorSpec /\ HandlerFairness

(***************************************************************************)
(* Properties of the Reporter.                                             *)
(***************************************************************************)

Failed == outcome \in {"status", "transport"}

\* C1: at the point where the wait is computed, a failed delivery of either
\* kind has incremented consecutive_failures, and when the increment brought
\* it to MAX_CONSECUTIVE_FAILURES or more the 30 s cool-down was taken and
\* the counter is 0.
C1_EveryFailureCountsTowardsCooldown ==
    (agent_pc = "wait" /\ Failed) =>
        IF before + 1 >= MAX_CONSECUTIVE_FAILURES
        THEN cooled /\ slept = COOLDOWN_SECS /\ consecutive_failures = 0
        ELSE consecutive_failures = before + 1

\* C2: in the iteration of the 5th consecutive failure (of any kind, counted
\* from the last success or cool-down) the counter used for the wait and
\* carried into the next iteration is 0.
C2_OutageReset ==
    (nth = MAX_CONSECUTIVE_FAILURES /\ agent_pc \in {"wait", "sleep", "sample"})
        => consecutive_failures = 0

C4_SuccessReset ==
    /\ (outcome = "success" /\ agent_pc \in {"wait", "sleep", "sample"})
           => consecutive_failures = 0
    /\ (Failed /\ prev = "success" /\ agent_pc = "sleep")
           => consecutive_failures = 1 /\ wait_time = 7

\* C4 witness: a success after four failures, the counter back at 0
C4_Witness ==
    /\ agent_pc = "wait"
    /\ outcome = "success"
    /\ before = 4
    /\ consecutive_failures = 0

\* C13: the loop has no terminal state: whatever the outcomes so far, some
\* step is possible, and the loop again and again samples and awaits the
\* response of a new delivery.
C13_NoTerminalState ==
    /\ [](ENABLED AgentNext)
    /\ []<>(agent_pc = "sample")
    /\ []<>(agent_pc = "send")

\* C13 witness: a delivery awaited after an unbroken run of failures that
\* went through the cool-down
C13_Witness ==
    agent_pc = "send" /\ cooled /\ outcome = "transport" /\ outstanding = 1

\* the order of the positions of the loop within an iteration
AgentOrder ==
    /\ agent_pc = "sample" => agent_pc' = "send"
    /\ agent_pc = "send" => agent_pc' \in {"cooldown", "wait"}
    /\ agent_pc = "cooldown" => agent_pc' = "wait"
    /\ agent_pc = "wait" => agent_pc' = "sleep"
    /\ agent_pc = "sleep" => agent_pc' = "sample"

\* C14: at most one request is outstanding, and only while the loop awaits
\* the response; an iteration goes sample, send, wait in that order; every
\* system_info sampled is sent exactly once, the send after a failure being
\* made with a new sample.
C14_SequentialNoReplay ==
    /\ [](outstanding \in {0, 1})
    /\ [](outstanding = 1 <=> agent_pc = "send")
    /\ [](attempts <= 1)
    /\ [](outcome # "none" => attempts = 1)
    /\ [][AgentOrder]_vars
    /\ [][agent_pc' = "send" => (agent_pc = "sample" /\ attempts' = 1)]_vars

\* C14 witness: a new sample is in flight, once, in the iteration after a
\* failed delivery
C14_Witness ==
    /\ agent_pc = "send"
    /\ Failed
    /\ attempts = 1
    /\ outstanding = 1
    /\ slept = 0

\* C15: in an iteration that took the cool-down the wait is still computed,
\* from the counter 0, and slept: 30 s then 5 s before the next sample; the
\* failure of the iteration after a cool-down is the first of its run, with
\* counter 1 and wait 7.
C15_WaitAfterCooldown ==
    /\ (cooled /\ agent_pc = "sleep") => wait_time = 5
    /\ (cooled /\ agent_pc = "sample")
           => (consecutive_failures = 0 /\ slept = 30 + 5)
    /\ (cooled /\ agent_pc = "send") => slept = 0
    /\ (Failed /\ nth = 1 /\ prev \in {"status", "transport"}
            /\ agent_pc = "sleep")
           => (consecutive_failures = 1 /\ wait_time = 7)

\* C15 witness: the first failure after a cool-down, waited 7 s for
C15_Witness ==
    /\ agent_pc = "sleep"
    /\ Failed
    /\ nth = 1
    /\ prev = "transport"
    /\ wait_time = 7

\* C16: consecutive_failures is at most 5 in every state and at most 4 when
\* an iteration starts.
C16_CounterBounded ==
    /\ consecutive_failures <= MAX_CONSECUTIVE_FAILURES
    /\ agent_pc = "sample" => consecutive_failures <= MAX_CONSECUTIVE_FAILURES - 1

(***************************************************************************)
(* Properties of the Collector.                                            *)
(***************************************************************************)

\* the POST requests whose body decoded: the Ingests
Ingests == { i \in Requests : kind[i] = "post" /\ i \in DOMAIN system_info }
IngestsOf(d) == { i \in Ingests : system_info[i].device_id = d }
Snapshots == { i \in Requests : kind[i] = "get" }

\* i and j overlapped in time: neither was answered when the other arrived
Concurrent(i, j) == i # j /\ i \notin preceded[j] /\ j \notin preceded[i]

\* the store as DashMap::get sees it
Present(d) == d \in DOMAIN metrics[determine_shard(d)]
Lookup(d) == metrics[determine_shard(d)][d]
\* the entries of key d over all shards
EntriesOf(d) == { s \in Shards : d \in DOMAIN metrics[s] }

\* the inserts for key d among the first n inserts
WritesTo(d, n) == { m \in 1 .. n : writes[m].info.device_id = d }
Last(S) == CHOOSE m \in S : \A x \in S : x <= m
LastWriteTo(d, n) == writes[Last(WritesTo(d, n))].info

\* the positions of the reports for key d in the Vec a GET has collected
PositionsOf(k, d) == { a \in 1 .. Len(result[k]) : result[k][a].device_id = d }

\* C5: Ingest(r1) followed by Ingest(r2) for the same device_id, no other
\* Ingest writing that key, leaves exactly one entry for it, and a Snapshot
\* taken afterwards returns exactly one Report for it, equal to r2.
C5_IdempotentOverwrite ==
    \A i, j \in Ingests :
        (/\ system_info[i].device_id = system_info[j].device_id
         /\ i \in preceded[j]
         /\ pc[j] = "done"
         /\ \A n \in 1 .. Len(writes) :
               writes[n].info.device_id = system_info[j].device_id
                   => writes[n].req \in {i, j})
        => LET d == system_info[j].device_id IN
            /\ Cardinality(EntriesOf(d)) = 1
            /\ \A k \in Snapshots :
                  (j \in preceded[k] /\ pc[k] = "done")
                  => /\ Cardinality(PositionsOf(k, d)) = 1
                     /\ \A a \in PositionsOf(k, d) : result[k][a] = system_info[j]

\* C5 witness: two different reports of one device ingested one after the
\* other, then a Snapshot answered
C5_Witness ==
    \E i, j \in Ingests, k \in Snapshots :
        /\ system_info[i].device_id = system_info[j].device_id
        /\ system_info[i] # system_info[j]
        /\ i \in preceded[j]
        /\ j \in preceded[k]
        /\ pc[k] = "done"
        /\ result[k] = <<system_info[j]>>

\* C6: Ingests for two different devices that ran concurrently, each the only
\* Ingest of its device: once both are answered the store holds both entries,
\* each equal to the report ingested for it.
C6_KeyIndependence ==
    \A i, j \in Ingests :
        (/\ Concurrent(i, j)
         /\ system_info[i].device_id # system_info[j].device_id
         /\ IngestsOf(system_info[i].device_id) = {i}
         /\ IngestsOf(system_info[j].device_id) = {j}
         /\ pc[i] = "done"
         /\ pc[j] = "done")
        => /\ Present(system_info[i].device_id)
           /\ Present(system_info[j].device_id)
           /\ Lookup(system_info[i].device_id) = system_info[i]
           /\ Lookup(system_info[j].device_id) = system_info[j]

\* C6 witness: two concurrent Ingests of devices of the same shard, both
\* answered, the one that arrived first having written last
C6_Witness ==
    \E i, j \in Ingests :
        /\ i < j
        /\ Concurrent(i, j)
        /\ system_info[i].device_id # system_info[j].device_id
        /\ determine_shard(system_info[i].device_id)
               = determine_shard(system_info[j].device_id)
        /\ pc[i] = "done"
        /\ pc[j] = "done"
        /\ Len(writes) = 2
        /\ writes[1].req = j
        /\ writes[2].req = i

\* C7: the step that receives a POST whose body is not JSON or lacks a
\* required field answers it with a 4xx status, never enters the handler and
\* leaves the store as it was.
C7_MalformedRejected ==
    [][\A body \in {MissingField, NotJson} :
          receive_metrics(body) =>
              /\ metrics' = metrics
              /\ writes' = writes
              /\ pc'[requests'] = "done"
              /\ status'[requests'] \in 400 .. 499
              /\ requests' \notin DOMAIN system_info']_vars

\* C7 witness: a body that is not JSON and one without a field were both
\* rejected while the store held an entry
C7_Witness ==
    \E i, j \in Requests :
        /\ kind[i] = "post" /\ status[i] = 400
        /\ kind[j] = "post" /\ status[j] = 422
        /\ Len(writes) = 1
        /\ i > writes[1].req
        /\ j > writes[1].req
        /\ Present(writes[1].info.device_id)

\* no Ingest was in flight at any time of request k
Quiet(k) == \A j \in Ingests : j \in preceded[k] \/ k \in preceded[j]
\* the devices accepted before request k arrived
KnownAt(k) == { writes[n].info.device_id : n \in 1 .. wstart[k] }

\* C8: a Snapshot during which no Ingest was in flight returns exactly one
\* Report per device_id accepted before it, the one ingested last for that
\* device, and nothing else.
C8_SnapshotShape ==
    \A k \in Snapshots :
        (pc[k] = "done" /\ Quiet(k))
        => /\ status[k] = 200
           /\ Len(result[k]) = Cardinality(KnownAt(k))
           /\ \A d \in KnownAt(k) :
                 \E a \in 1 .. Len(result[k]) :
                     result[k][a] = LastWriteTo(d, wstart[k])

\* C8 witness: after Ingests for the two devices the Snapshot holds exactly
\* their two Reports
C8_Witness ==
    \E k \in Snapshots :
        /\ pc[k] = "done"
        /\ Quiet(k)
        /\ KnownAt(k) = Devices
        /\ Len(result[k]) = 2

\* the values the store held for key d from the arrival of request k to now
HeldSince(k, d) ==
    (IF WritesTo(d, wstart[k]) = {} THEN {} ELSE {LastWriteTo(d, wstart[k])})
    \cup { writes[n].info : n \in WritesTo(d, Len(writes)) \ (1 .. wstart[k]) }

\* C9: while a Snapshot runs, with Ingests in flight or not, every Report it
\* has collected is a whole ingested report that was the store's value for
\* its device_id at some moment since the Snapshot began.
C9_PerKeyAtomicity ==
    \A k \in Snapshots :
        pc[k] = "iter" =>
            \A a \in 1 .. Len(result[k]) :
                /\ result[k][a] \in { system_info[i] : i \in Ingests }
                /\ result[k][a] \in HeldSince(k, result[k][a].device_id)

\* C9 witness: a Snapshot at its end that has collected a report written
\* during the call over an older report of the same device
C9_Witness ==
    \E k \in Snapshots :
        /\ pc[k] = "iter"
        /\ shard_i[k] = NumShards
        /\ \E n \in (wstart[k] + 1) .. Len(writes) :
              /\ WritesTo(writes[n].info.device_id, wstart[k]) # {}
              /\ LastWriteTo(writes[n].info.device_id, wstart[k]) # writes[n].info
              /\ \E a \in 1 .. Len(result[k]) : result[k][a] = writes[n].info

\* C10: once all the Ingests of a device_id are answered, two of them having
\* run concurrently, the store holds for that key the report of the Ingest
\* whose insert was done last.
C10_LastWriteWins ==
    \A i, j \in Ingests :
        LET d == system_info[i].device_id IN
        (/\ system_info[j].device_id = d
         /\ Concurrent(i, j)
         /\ \A x \in IngestsOf(d) : pc[x] = "done")
        => /\ Present(d)
           /\ Cardinality(EntriesOf(d)) = 1
           /\ Lookup(d) = LastWriteTo(d, Len(writes))
           /\ Lookup(d) = system_info[writes[Last(WritesTo(d, Len(writes)))].req]

\* C10 witness: two concurrent Ingests of one device with different reports,
\* the one that arrived first having written last and being the one stored
C10_Witness ==
    \E i, j \in Ingests :
        /\ i < j
        /\ Concurrent(i, j)
        /\ system_info[i].device_id = system_info[j].device_id
        /\ system_info[i] # system_info[j]
        /\ pc[i] = "done"
        /\ pc[j] = "done"
        /\ Len(writes) = 2
        /\ writes[1].req = j
        /\ writes[2].req = i
        /\ Lookup(system_info[i].device_id) = system_info[i]

\* the keys of the store
Keys == UNION { DOMAIN metrics[s] : s \in Shards }

\* C11: the store starts empty; no step removes a key; the key of an
\* answered Ingest is in the store, and a Snapshot that arrived after the
\* answer holds a Report for it.
C11_NeverDeleted ==
    /\ Keys = {}
    /\ [][Keys \subseteq Keys']_vars
    /\ [](\A i \in Ingests :
            pc[i] = "done" =>
                /\ system_info[i].device_id \in Keys
                /\ \A k \in Snapshots :
                      (i \in preceded[k] /\ pc[k] = "done")
                      => PositionsOf(k, system_info[i].device_id) # {})

\* C11 witness: an Ingest answered, then an Ingest of the other device, then
\* a Snapshot that holds Reports for both
C11_Witness ==
    \E i, j \in Ingests, k \in Snapshots :
        /\ i \in preceded[j]
        /\ j \in preceded[k]
        /\ system_info[i].device_id # system_info[j].device_id
        /\ pc[k] = "done"
        /\ PositionsOf(k, system_info[i].device_id) # {}
        /\ PositionsOf(k, system_info[j].device_id) # {}

\* C12: a body that is the JSON of any report, whatever its values, enters
\* the handler with exactly that report; its insert stores the report under
\* its device_id, and its answer is 200.
C12_IngestAlwaysSucceeds ==
    /\ [][\A r \in Reports :
            receive_metrics(JsonOf(r)) =>
                /\ pc'[requests'] = "insert"
                /\ requests' \in DOMAIN system_info'
                /\ system_info'[requests'] = r]_vars
    /\ [][\A i \in Requests :
            insert(i) =>
                /\ Present(system_info[i].device_id)'
                /\ Lookup(system_info[i].device_id)' = system_info[i]]_vars
    /\ [](\A i \in Requests :
            (kind[i] = "post" /\ i \in DOMAIN system_info /\ pc[i] = "done")
                => (status[i] = 200
                    /\ \E n \in 1 .. Len(writes) :
                          writes[n] = [req |-> i, info |-> system_info[i]]))

\* C12 witness: the report with the empty device_id and the report with
\* cpu_usage above 100 and ram_used_mb above ram_total_mb are both stored
\* and answered 200
C12_Witness ==
    \E i, j \in Ingests :
        /\ status[i] = 200
        /\ status[j] = 200
        /\ system_info[i].device_id = ""
        /\ system_info[j].cpu_usage > 100
        /\ system_info[j].ram_used_mb > system_info[j].ram_total_mb
        /\ Lookup("") = system_info[i]
        /\ Lookup(system_info[j].device_id) = system_info[j]

\* the entries of the store, over all shards
Entries == { e \in Shards \X Keys : e[2] \in DOMAIN metrics[e[1]] }
ResultSet(k) == { result[k][a] : a \in 1 .. Len(result[k]) }

\* what C17 says besides the count of entries: every entry is stored under
\* the device_id of its report, in the shard of that key, and no Snapshot
\* holds two Reports of one device_id.
KeyInvariant ==
    /\ \A e \in Entries :
          /\ metrics[e[1]][e[2]].device_id = e[2]
          /\ e[1] = determine_shard(e[2])
    /\ \A k \in Snapshots :
          \A d \in Devices : Cardinality(PositionsOf(k, d)) <= 1

\* C17 as stated: with that, the number of entries is the number of distinct
\* device_ids among the answered Ingests.
C17_KeyInvariant_Answered ==
    /\ KeyInvariant
    /\ Cardinality(Entries)
         = Cardinality({ system_info[i].device_id :
                            i \in { x \in Ingests : pc[x] = "done" } })

\* C17 amended: the number of entries is the number of distinct device_ids
\* among the Ingests whose insert has been done, answered or not yet.
C17_KeyInvariant ==
    /\ KeyInvariant
    /\ Cardinality(Entries)
         = Cardinality({ writes[n].info.device_id : n \in 1 .. Len(writes) })

\* C17 witness: a Snapshot that overlapped an Ingest holds the Reports of the
\* two devices, one each
C17_Witness ==
    \E k \in Snapshots :
        /\ ~Quiet(k)
        /\ Cardinality(Entries) = 2
        /\ Len(result[k]) = 2
        /\ result[k][1].device_id # result[k][2].device_id

\* the frame of the handlers' steps: an insert leaves every entry but the one
\* of its key as it was, and the steps of get_all_metrics leave the store
\* as it was
InsertFrame ==
    \A i \in Requests :
        insert(i) =>
            \A s \in Shards : \A d \in Devices :
                (d # system_info[i].device_id) =>
                    /\ (d \in DOMAIN metrics'[s]) <=> (d \in DOMAIN metrics[s])
                    /\ (d \in DOMAIN metrics[s]) => metrics'[s][d] = metrics[s][d]
SnapshotFrame ==
    (get_all_metrics
        \/ \E i \in Requests : iter_next(i) \/ get_all_metrics_return(i))
    => metrics' = metrics

\* C18 as stated, its last part: two Snapshots, the second arrived after the
\* answer of the first, with no Ingest answered from the arrival of the
\* first to the answer of the second, return the same set of Reports.
C18_SameSnapshots_Answered ==
    \A k1, k2 \in Snapshots :
        (/\ pc[k1] = "done"
         /\ pc[k2] = "done"
         /\ k1 \in preceded[k2]
         /\ \A i \in Ingests :
               i \in preceded[k1] \/ pc[i] # "done" \/ k2 \in preceded[i])
        => ResultSet(k1) = ResultSet(k2)

\* C18 amended: the frame of insert and of the Snapshot steps, and two
\* Snapshots, the second arrived after the answer of the first, with no
\* insert done from the arrival of the first to the end of the second's
\* iteration, return the same set of Reports.
C18_Frame ==
    /\ [][InsertFrame]_vars
    /\ [][SnapshotFrame]_vars
    /\ [](\A k1, k2 \in Snapshots :
            (/\ pc[k1] = "done"
             /\ k1 \in preceded[k2]
             /\ shard_i[k2] = NumShards
             /\ Len(writes) = wstart[k1])
            => ResultSet(k1) = ResultSet(k2))

\* C18 witness: an Ingest, then two Snapshots one after the other with the
\* same non-empty Vec
C18_Witness ==
    \E k1, k2 \in Snapshots :
        /\ k1 \in preceded[k2]
        /\ pc[k2] = "done"
        /\ Len(writes) = 1
        /\ wstart[k1] = 1
        /\ result[k1] # <<>>
        /\ result[k1] = result[k2]

\* the handlers in flight, and a step of one of them
InFlight == { i \in Requests : pc[i] \notin {"idle", "done"} }
HandlerStep ==
    \E i \in Requests :
        \/ insert(i)
        \/ receive_metrics_return(i)
        \/ iter_next(i)
        \/ get_all_metrics_return(i)

\* C19: while a handler is in flight some handler can take a step, a handler
\* that leaves flight has answered 200, and under fair scheduling every request
\* that entered its handler is answered. Arrivals are finitely many and "done"
\* is final, so "every handler in flight eventually returns" is "eventually
\* no handler is in flight, for good".
C19_StoreOperationsComplete ==
    /\ [](InFlight # {} => ENABLED HandlerStep)
    /\ [][\A i \in InFlight : pc'[i] = "done" => status'[i] = 200]_vars
    /\ <>[](InFlight = {})

\* C19 witness: an Ingest waits for the lock of its shard while a Snapshot
\* holds the shard's read guard, a second Ingest in flight
C19_Witness ==
    \E i, j \in Ingests :
        /\ i # j
        /\ pc[i] = "insert"
        /\ pc[j] = "insert"
        /\ readers[determine_shard(system_info[i].device_id)] # {}

====
